---- MODULE Spec2Model ----
(***************************************************************************)
(* Fixation detection and feature derivation of server/feature_extractor.py *)
(* (detect_fixations, compute_saccade_duration, calculate_reread_frequency, *)
(* calculate_env_fixation_ratio, extract_features_from_window).             *)
(*                                                                          *)
(* Numbers.  Timestamps, coordinates and thresholds are integers.  A value  *)
(* the code obtains with np.mean or a division is kept as the exact         *)
(* fraction in lowest terms (Frac); float rounding is not modelled.  The    *)
(* test  sqrt(dx^2 + dy^2) <= distance_threshold  against the mean of n     *)
(* members is evaluated exactly, multiplied through by n^2 (WithinDistance).*)
(*                                                                          *)
(* Dicts.  A Python dict is a record; a key that may be missing is a field  *)
(* that may be missing from the record's DOMAIN, read with Get as the code  *)
(* reads it with dict.get.                                                  *)
(***************************************************************************)
EXTENDS Integers, Sequences, FiniteSets, TLC

VARIABLES
    call,               \* the function that was called
    pc,                 \* position of the running call
    gaze_points,        \* argument: list of gaze samples
    distance_threshold, \* argument of detect_fixations
    duration_threshold, \* argument of detect_fixations
    i,                  \* detect_fixations: index of the next sample of the for loop
    current_fixation,   \* detect_fixations: the open candidate, or None
    fixations,          \* detect_fixations: the list built so far / a fixation-list argument
    content_aois,       \* argument of calculate_env_fixation_ratio
    window_data,        \* argument of extract_features_from_window
    ret,                \* the value returned by the call
    earlier             \* the windows analysed so far with the mapping each returned

vars == <<call, pc, gaze_points, distance_threshold, duration_threshold, i,
          current_fixation, fixations, content_aois, window_data, ret, earlier>>

-----------------------------------------------------------------------------
(* Bounds of the explored inputs *)

MaxLen == 3       \* samples of an enumerated gaze log given to detect_fixations
MaxFix == 4       \* fixations of an enumerated fixation list
MaxSamples == 5   \* samples of an enumerated trace given to calculate_reread_frequency
MaxGaze == 2      \* samples of an enumerated gaze_log of a window
MaxEvents == 2    \* interactions of a window
MaxHr == 2        \* heart-rate samples of a window
MaxCalls == 2

\* calls of extract_features_from_window in flight at once
MaxInFlight == 2     \* earlier calls remembered when windows are analysed one after another

-----------------------------------------------------------------------------
(* Python values *)

None == [none |-> TRUE]

\* dict.get(key, default)
Get(d, key, default) == IF key \in DOMAIN d THEN d[key] ELSE default

RECURSIVE Sum(_)
Sum(s) == IF s = <<>> THEN 0 ELSE Head(s) + Sum(Tail(s))

Abs(n) == IF n < 0 THEN -n ELSE n

RECURSIVE GCD(_, _)
GCD(a, b) == IF b = 0 THEN a ELSE GCD(b, a % b)

\* the number num/den (den > 0), in lowest terms
Frac(num, den) ==
    LET g == GCD(Abs(num), den)
    IN  [num |-> num \div g, den |-> den \div g]

\* np.mean of a non-empty list of integers
Mean(s) == Frac(Sum(s), Len(s))

Zero == Frac(0, 1)

\* float(n) of an integer
Float(n) == Frac(n, 1)

-----------------------------------------------------------------------------
(* detect_fixations *)

\* lines 29-35 and 64-70: a candidate seeded with one sample
NewFixation(x, y, t, aoi) ==
    [x |-> <<x>>, y |-> <<y>>, start |-> t, end |-> t, aoi |-> aoi]

\* WithinDistance reading a threshold of 0 as "no threshold"
WithinDistanceZeroUnset(cf, x, y, dthr) ==
    LET n  == Len(cf.x)
        dx == n * x - Sum(cf.x)
        dy == n * y - Sum(cf.y)
    IN  dthr = 0 \/ dx * dx + dy * dy <= dthr * dthr * n * n

\* WithinDistance measured from the candidate's first sample, not its mean
WithinDistanceFirstSample(cf, x, y, dthr) ==
    LET dx == x - cf.x[1]
        dy == y - cf.y[1]
    IN  dthr >= 0 /\ dx * dx + dy * dy <= dthr * dthr

\* lines 38-40 and the first conjunct of line 45: dist <= distance_threshold,
\* with center = (Sum(xs)/n, Sum(ys)/n); both sides squared and multiplied by n^2
WithinDistance(cf, x, y, dthr) ==
    LET n  == Len(cf.x)
        dx == n * x - Sum(cf.x)
        dy == n * y - Sum(cf.y)
    IN  dthr >= 0 /\ dx * dx + dy * dy <= dthr * dthr * n * n

\* lines 54-61 and 76-83: the fixation emitted for a candidate
Emitted(cf, duration) ==
    [x |-> Mean(cf.x), y |-> Mean(cf.y), start |-> cf.start, end |-> cf.end,
     duration |-> duration, aoi |-> Get(cf, "aoi", "NONE")]

\* Close without the test of line 53 / 75
CloseNoThreshold(fs, cf, durthr) == Append(fs, Emitted(cf, cf.end - cf.start))

\* lines 52-61 and 74-83: close a candidate, emitting it when long enough
Close(fs, cf, durthr) ==
    LET duration == cf.end - cf.start
    IN  IF duration >= durthr THEN Append(fs, Emitted(cf, duration)) ELSE fs

\* LoopBody with line 67 reading 'start': current_fixation['start']
LoopBodyKeepsStart(st, point, dthr, durthr) ==
    LET aoi == Get(point, "aoi", "NONE")
        cf  == st.current_fixation
    IN  IF cf = None
        THEN [fixations |-> st.fixations,
              current_fixation |-> NewFixation(point.x, point.y, point.t, aoi)]
        ELSE IF WithinDistance(cf, point.x, point.y, dthr) /\ cf.aoi = aoi
        THEN [fixations |-> st.fixations,
              current_fixation |->
                  [cf EXCEPT !.x = Append(@, point.x), !.y = Append(@, point.y),
                             !.end = point.t]]
        ELSE [fixations |-> Close(st.fixations, cf, durthr),
              current_fixation |->
                  [NewFixation(point.x, point.y, point.t, aoi) EXCEPT !.start = cf.start]]

\* lines 25-70: one iteration of the for loop, on state st = [fixations, current_fixation]
LoopBody(st, point, dthr, durthr) ==
    LET x   == point.x
        y   == point.y
        t   == point.t
        aoi == Get(point, "aoi", "NONE")
        cf  == st.current_fixation
    IN  IF cf = None
        THEN [fixations |-> st.fixations, current_fixation |-> NewFixation(x, y, t, aoi)]
        ELSE LET same_aoi == Get(cf, "aoi", None) = aoi
             IN  IF WithinDistance(cf, x, y, dthr) /\ same_aoi
                 THEN [fixations |-> st.fixations,
                       current_fixation |->
                           [cf EXCEPT !.x = Append(@, x), !.y = Append(@, y), !.end = t]]
                 ELSE [fixations |-> Close(st.fixations, cf, durthr),
                       current_fixation |-> NewFixation(x, y, t, aoi)]

\* Flush without the duration test of line 75
FlushNoTest(st, durthr) ==
    IF st.current_fixation # None
    THEN Append(st.fixations,
                Emitted(st.current_fixation,
                        st.current_fixation.end - st.current_fixation.start))
    ELSE st.fixations

\* lines 73-85: after the loop
Flush(st, durthr) ==
    IF st.current_fixation # None
    THEN Close(st.fixations, st.current_fixation, durthr)
    ELSE st.fixations

\* DetectStart with the list of line 21 kept from the call before
DetectStartStale == [fixations |-> fixations, current_fixation |-> None]

\* lines 21-22: the locals a call starts from
DetectStart == [fixations |-> <<>>, current_fixation |-> None]

\* lines 24-70: the for loop over points, from state st
RECURSIVE Loop(_, _, _, _)
Loop(st, points, dthr, durthr) ==
    IF points = <<>> THEN st
    ELSE Loop(LoopBody(st, Head(points), dthr, durthr), Tail(points), dthr, durthr)

\* lines 6-85: the whole call
detect_fixations(points, dthr, durthr) ==
    IF Len(points) = 0 THEN <<>>
    ELSE Flush(Loop(DetectStart, points, dthr, durthr), durthr)

\* line 6: the default thresholds
DefaultDistanceThreshold == 50
DefaultDurationThreshold == 100

-----------------------------------------------------------------------------
(* compute_saccade_duration *)

\* SaccadeDurations with line 104 measuring start to start
RECURSIVE SaccadeDurationsStartToStart(_, _)
SaccadeDurationsStartToStart(fs, k) ==
    IF k > Len(fs) - 1 THEN <<>>
    ELSE LET saccade_duration == fs[k + 1].start - fs[k].start
         IN  IF saccade_duration > 0
             THEN <<saccade_duration>> \o SaccadeDurationsStartToStart(fs, k + 1)
             ELSE SaccadeDurationsStartToStart(fs, k + 1)

\* SaccadeDurations with line 105 reading saccade_duration >= 0
RECURSIVE SaccadeDurationsNonNegative(_, _)
SaccadeDurationsNonNegative(fs, k) ==
    IF k > Len(fs) - 1 THEN <<>>
    ELSE LET saccade_duration == fs[k + 1].start - fs[k].end
         IN  IF saccade_duration >= 0
             THEN <<saccade_duration>> \o SaccadeDurationsNonNegative(fs, k + 1)
             ELSE SaccadeDurationsNonNegative(fs, k + 1)

\* lines 101-106: the list saccade_durations built from index k on
RECURSIVE SaccadeDurations(_, _)
SaccadeDurations(fs, k) ==
    IF k > Len(fs) - 1 THEN <<>>
    ELSE LET saccade_duration == fs[k + 1].start - fs[k].end
         IN  IF saccade_duration > 0
             THEN <<saccade_duration>> \o SaccadeDurations(fs, k + 1)
             ELSE SaccadeDurations(fs, k + 1)

\* lines 98-108
compute_saccade_duration(fs) ==
    IF Len(fs) < 2 THEN Zero
    ELSE LET saccade_durations == SaccadeDurations(fs, 1)
         IN  IF saccade_durations # <<>> THEN Mean(saccade_durations) ELSE Zero

-----------------------------------------------------------------------------
(* calculate_reread_frequency *)

InList(e, list) == \E k \in 1..Len(list) : list[k] = e

\* RereadBody without the skip of lines 129-130
RereadBodyCountsNone(st, point) ==
    LET aoi == Get(point, "aoi", "NONE")
    IN  IF InList(aoi, st.visited_aois)
        THEN [st EXCEPT !.reread_count = @ + 1]
        ELSE [st EXCEPT !.visited_aois = Append(@, aoi)]

\* RereadBody that forgets an AOI once its re-read is counted (event-paired)
RereadBodyPaired(st, point) ==
    LET aoi == Get(point, "aoi", "NONE")
    IN  IF aoi = "NONE" THEN st
        ELSE IF InList(aoi, st.visited_aois)
        THEN [reread_count |-> st.reread_count + 1,
              visited_aois |-> SelectSeq(st.visited_aois, LAMBDA a : a # aoi)]
        ELSE [st EXCEPT !.visited_aois = Append(@, aoi)]

\* lines 128-135: one iteration, on state st = [visited_aois, reread_count]
RereadBody(st, point) ==
    LET aoi == Get(point, "aoi", "NONE")
    IN  IF aoi = "NONE" THEN st
        ELSE IF InList(aoi, st.visited_aois)
        THEN [st EXCEPT !.reread_count = @ + 1]
        ELSE [st EXCEPT !.visited_aois = Append(@, aoi)]

\* lines 127-135
RECURSIVE RereadLoop(_, _)
RereadLoop(st, points) ==
    IF points = <<>> THEN st ELSE RereadLoop(RereadBody(st, Head(points)), Tail(points))

\* calculate_reread_frequency with line 121 reading len(gaze_points) < 3
calculate_reread_frequency_short(points) ==
    IF Len(points) < 3 THEN 0
    ELSE RereadLoop([visited_aois |-> <<>>, reread_count |-> 0], points).reread_count

\* lines 121-137
calculate_reread_frequency(points) ==
    IF Len(points) < 2 THEN 0
    ELSE RereadLoop([visited_aois |-> <<>>, reread_count |-> 0], points).reread_count

-----------------------------------------------------------------------------
(* calculate_env_fixation_ratio *)

\* line 157: the default content areas, p1 .. p9
DefaultContentAois == <<"p1", "p2", "p3", "p4", "p5", "p6", "p7", "p8", "p9">>

\* IsEnvFixation without the second conjunct of line 159
IsEnvFixationIgnoresSentinel(f, content) == ~InList(Get(f, "aoi", "NONE"), content)

\* line 159: the test of the generator expression
IsEnvFixation(f, content) ==
    /\ ~InList(Get(f, "aoi", "NONE"), content)
    /\ Get(f, "aoi", None) # "NONE"

\* line 159: sum(1 for f in fixations if ...), from index k on
RECURSIVE EnvFixations(_, _, _)
EnvFixations(fs, content, k) ==
    IF k > Len(fs) THEN 0
    ELSE (IF IsEnvFixation(fs[k], content) THEN 1 ELSE 0) + EnvFixations(fs, content, k + 1)

\* lines 152-162; content_aois is None or [list |-> the list given]
calculate_env_fixation_ratio(fs, content) ==
    IF Len(fs) = 0 THEN Zero
    ELSE LET list == IF content = None THEN DefaultContentAois ELSE content.list
             env_fixations == EnvFixations(fs, list, 1)
             total_fixations == Len(fs)
         IN  IF total_fixations > 0 THEN Frac(env_fixations, total_fixations) ELSE Zero

-----------------------------------------------------------------------------
(* extract_features_from_window *)

\* what a failed field access (hr['bpm'], line 206) raises
KeyError == [error |-> "KeyError"]

\* line 187: [f['duration'] for f in fixations]
Durations(fs) == [k \in 1..Len(fs) |-> fs[k].duration]

\* line 206: [hr['bpm'] for hr in heart_rate]
Bpms(heart_rate) == [k \in 1..Len(heart_rate) |-> heart_rate[k].bpm]

\* line 202: len([i for i in interactions if i.get('type') == 'click'])
RECURSIVE ClickCount(_)
ClickCount(interactions) ==
    IF interactions = <<>> THEN 0
    ELSE (IF "type" \in DOMAIN Head(interactions) /\ Head(interactions).type = "click"
          THEN 1 ELSE 0) + ClickCount(Tail(interactions))

\* lines 178 and 183: the fixations of the window's gaze_log
WindowFixations(w) ==
    detect_fixations(Get(w, "gaze_log", <<>>),
                     DefaultDistanceThreshold, DefaultDurationThreshold)

\* extract_features_from_window with window_data['...'] for the .get of lines 178-180
extract_features_strict(w) ==
    IF {"gaze_log", "interactions", "heart_rate"} \subseteq DOMAIN w
    THEN LET fs == WindowFixations(w)
         IN  [Mean_Fixation_Duration |->
                  IF Len(fs) > 0 THEN Mean(Durations(fs)) ELSE Zero,
              Num_of_Fixations |-> Float(Len(fs)),
              Mean_Saccade_Duration |->
                  IF Len(fs) > 0 THEN compute_saccade_duration(fs) ELSE Zero,
              Bpm |-> IF Len(w.heart_rate) > 0
                      THEN Mean(Bpms(w.heart_rate)) ELSE Zero]
    ELSE KeyError

\* lines 165-218: the mapping returned, or the exception raised
extract_features_from_window(w) ==
    LET gaze_log     == Get(w, "gaze_log", <<>>)
        interactions == Get(w, "interactions", <<>>)
        heart_rate   == Get(w, "heart_rate", <<>>)
        fs           == WindowFixations(w)
        mean_fixation_duration ==
            IF Len(fs) > 0 THEN Mean(Durations(fs)) ELSE Zero
        num_fixations == Len(fs)
        mean_saccade_duration ==
            IF Len(fs) > 0 THEN compute_saccade_duration(fs) ELSE Zero
        \* lines 196-202: computed, and not part of the mapping of lines 211-216
        reread_freq == calculate_reread_frequency(gaze_log)
        env_fixation_ratio ==
            calculate_env_fixation_ratio(fs, [list |-> <<"p1", "p2", "p3", "p4">>])
        click_count == ClickCount(interactions)
    IN  IF \E k \in 1..Len(heart_rate) : "bpm" \notin DOMAIN heart_rate[k]
        THEN KeyError
        ELSE [Mean_Fixation_Duration |-> mean_fixation_duration,
              Num_of_Fixations |-> Float(num_fixations),
              Mean_Saccade_Duration |-> mean_saccade_duration,
              Bpm |-> IF Len(heart_rate) > 0
                      THEN Mean(Bpms(heart_rate)) ELSE Zero]

-----------------------------------------------------------------------------
(* Inputs *)

Times == {0, 50, 100}

\* where the gaze can rest: (100,100)-(130,140) are 50 apart, (100,100)-(145,160)
\* are 75 apart, and (145,160) is 50 from the midpoint (115,120) of the first two;
\* the last place carries no aoi field
Places ==
    {[x |-> 100, y |-> 100, aoi |-> "p1"],
     [x |-> 130, y |-> 140, aoi |-> "p1"],
     [x |-> 145, y |-> 160, aoi |-> "p1"],
     [x |-> 130, y |-> 140, aoi |-> "NONE"],
     [x |-> 130, y |-> 140]}

\* well-formed gaze samples
Samples == {[t |-> t] @@ p : t \in Times, p \in Places}

SeqsUpTo(S, n) == UNION {[1..k -> S] : k \in 0..n}

\* a run of samples at one place, one per timestamp of ts
Cluster(ts, place) == [k \in 1..Len(ts) |-> [t |-> ts[k]] @@ place]

\* spec section 8, scenario A: 5 samples at (100,100) spanning t = 0..150, all "p1"
ScenarioA == {Cluster(<<0, 40, 80, 120, 150>>, [x |-> 100, y |-> 100, aoi |-> "p1"])}

\* spec section 8, scenario B: (100,100) over t = 0..120 in "p1", then (500,500)
\* over t = 200..350 in "p2"
ScenarioB ==
    {Cluster(t1, [x |-> 100, y |-> 100, aoi |-> "p1"])
       \o Cluster(t2, [x |-> 500, y |-> 500, aoi |-> "p2"]) :
     t1 \in {<<0, 120>>, <<0, 60, 120>>}, t2 \in {<<200, 350>>, <<200, 275, 350>>}}

GazeLogs == SeqsUpTo(Samples, MaxLen) \cup ScenarioA \cup ScenarioB

DistanceThresholds == {0, DefaultDistanceThreshold}
DurationThresholds == {0, DefaultDurationThreshold}

-----------------------------------------------------------------------------
(* Inputs of the saccade timer and the attention metrics *)

\* a fixation as detect_fixations emits it (lines 54-61), at (100,100)
Fixation(start, end, aoi) ==
    [x |-> Float(100), y |-> Float(100), start |-> start, end |-> end,
     duration |-> end - start, aoi |-> aoi]

\* fixation lists in any order of time, so that gaps of either sign occur
TimedFixations ==
    {Fixation(span[1], span[2], "p1") : span \in {q \in Times \X Times : q[1] <= q[2]}}
TimedFixationLists == SeqsUpTo(TimedFixations, MaxFix)

\* fixation lists over content, non-content and sentinel areas; every fixation
\* carries the aoi key (line 145)
AoiFixations == {Fixation(0, 100, a) : a \in {"p1", "p5", "ui", "NONE"}}
AoiFixationLists == SeqsUpTo(AoiFixations, MaxFix)

ContentAois ==
    {None} \cup {[list |-> c] : c \in {<<>>, <<"p1">>, <<"p1", "p5">>, <<"ui">>, <<"NONE", "p1">>}}

\* samples that differ in the aoi field only, which is all the re-read count reads
AoiSamples ==
    {[t |-> 0, x |-> 100, y |-> 100, aoi |-> a] : a \in {"p1", "p2", "NONE"}}
    \cup {[t |-> 0, x |-> 100, y |-> 100]}

\* spec section 8, scenario D: 10 samples, 100 ms apart, in five runs that
\* alternate between "p1" at (100,100) and "p2" at (500,500): p1 is visited 3
\* times and p2 twice.  r[j] is the length of run j.
RunOf(r, k) == CHOOSE j \in 1..5 : Sum(SubSeq(r, 1, j - 1)) < k /\ k <= Sum(SubSeq(r, 1, j))

ScenarioD ==
    {[k \in 1..10 |->
        IF RunOf(r, k) % 2 = 1
        THEN [t |-> 100 * (k - 1), x |-> 100, y |-> 100, aoi |-> "p1"]
        ELSE [t |-> 100 * (k - 1), x |-> 500, y |-> 500, aoi |-> "p2"]] :
     r \in {q \in [1..5 -> 1..6] : Sum(q) = 10}}

RereadTraces == SeqsUpTo(AoiSamples, MaxSamples) \cup ScenarioD

-----------------------------------------------------------------------------
(* Windows *)

\* a window with none of the three streams; main.py reads window_id
NoStream == [window_id |-> "w1"]

WindowSamples == {s \in Samples : s.t \in {0, 100}}

WindowGazeLogs == SeqsUpTo(WindowSamples, MaxGaze) \cup ScenarioA \cup ScenarioB

Interactions == {[t |-> 0, type |-> "click"], [t |-> 0, type |-> "scroll"]}

\* heart-rate samples; the last one is malformed (no bpm)
HeartRates == {[t |-> 0, bpm |-> 60], [t |-> 0, bpm |-> 75], [t |-> 0]}

\* every stream is a list, or its key is absent
GazeStreams == {NoStream} \cup {[gaze_log |-> l] : l \in WindowGazeLogs}
InteractionStreams ==
    {NoStream} \cup {[interactions |-> l] : l \in SeqsUpTo(Interactions, MaxEvents)}
HeartRateStreams ==
    {NoStream} \cup {[heart_rate |-> l] : l \in SeqsUpTo(HeartRates, MaxHr)}

\* the window_data dict with the streams g, n and h
Window(g, n, h) == NoStream @@ g @@ n @@ h

\* the windows of the calls in flight together
InterleaveWindows ==
    {Window(g, NoStream, [heart_rate |-> <<[t |-> 0, bpm |-> 60]>>]) :
        g \in {NoStream} \cup {[gaze_log |-> l] : l \in {<<>>} \cup ScenarioA \cup ScenarioB}}

\* the windows analysed repeatedly
RepeatWindows ==
    {Window(g, NoStream, h) :
        g \in {NoStream} \cup {[gaze_log |-> l] : l \in {<<>>} \cup ScenarioA \cup ScenarioB},
        h \in {NoStream, [heart_rate |-> <<[t |-> 0, bpm |-> 60]>>]}}

-----------------------------------------------------------------------------
(* A call of detect_fixations, one loop iteration per step *)

InitDetect ==
    /\ call = "detect_fixations"
    /\ pc = "entry"
    /\ gaze_points \in GazeLogs
    /\ distance_threshold \in DistanceThresholds
    /\ duration_threshold \in DurationThresholds
    /\ i = 0
    /\ current_fixation = None
    /\ fixations = <<>>
    /\ content_aois = None
    /\ window_data = None
    /\ ret = None
    /\ earlier = <<>>

\* lines 18-22
DetectEntry ==
    /\ call = "detect_fixations"
    /\ pc = "entry"
    /\ IF Len(gaze_points) = 0
       THEN /\ pc' = "returned"
            /\ ret' = <<>>
            /\ UNCHANGED <<i, current_fixation, fixations>>
       ELSE /\ pc' = "for"
            /\ fixations' = DetectStart.fixations
            /\ current_fixation' = DetectStart.current_fixation
            /\ i' = 1
            /\ UNCHANGED ret
    /\ UNCHANGED <<call, gaze_points, distance_threshold, duration_threshold,
                   content_aois, window_data, earlier>>

\* lines 24-70: the loop body on the next sample
DetectStep ==
    /\ pc = "for"
    /\ i <= Len(gaze_points)
    /\ LET st == LoopBody([fixations |-> fixations, current_fixation |-> current_fixation],
                          gaze_points[i], distance_threshold, duration_threshold)
       IN  /\ fixations' = st.fixations
           /\ current_fixation' = st.current_fixation
    /\ i' = i + 1
    /\ UNCHANGED <<call, pc, gaze_points, distance_threshold, duration_threshold,
                   content_aois, window_data, ret, earlier>>

\* lines 72-85: the loop is over
DetectReturn ==
    /\ pc = "for"
    /\ i > Len(gaze_points)
    /\ fixations' = Flush([fixations |-> fixations, current_fixation |-> current_fixation],
                          duration_threshold)
    /\ ret' = fixations'
    /\ pc' = "returned"
    /\ UNCHANGED <<call, gaze_points, distance_threshold, duration_threshold, i,
                   current_fixation, content_aois, window_data, earlier>>

NextDetect == DetectEntry \/ DetectStep \/ DetectReturn

SpecDetect == InitDetect /\ [][NextDetect]_vars

-----------------------------------------------------------------------------
(* Calls of the saccade timer and the attention metrics *)

InitMetrics ==
    /\ pc = "entry"
    /\ \/ /\ call = "compute_saccade_duration"
          /\ fixations \in TimedFixationLists
          /\ gaze_points = <<>>
          /\ content_aois = None
       \/ /\ call = "calculate_reread_frequency"
          /\ gaze_points \in RereadTraces
          /\ fixations = <<>>
          /\ content_aois = None
       \/ /\ call = "calculate_env_fixation_ratio"
          /\ fixations \in AoiFixationLists
          /\ content_aois \in ContentAois
          /\ gaze_points = <<>>
    /\ distance_threshold = DefaultDistanceThreshold
    /\ duration_threshold = DefaultDurationThreshold
    /\ i = 0
    /\ current_fixation = None
    /\ window_data = None
    /\ ret = None
    /\ earlier = <<>>

\* lines 88-108
SaccadeCall ==
    /\ call = "compute_saccade_duration"
    /\ pc = "entry"
    /\ ret' = compute_saccade_duration(fixations)
    /\ pc' = "returned"
    /\ UNCHANGED <<call, gaze_points, distance_threshold, duration_threshold, i,
                   current_fixation, fixations, content_aois, window_data, earlier>>

\* lines 111-137
RereadCall ==
    /\ call = "calculate_reread_frequency"
    /\ pc = "entry"
    /\ ret' = calculate_reread_frequency(gaze_points)
    /\ pc' = "returned"
    /\ UNCHANGED <<call, gaze_points, distance_threshold, duration_threshold, i,
                   current_fixation, fixations, content_aois, window_data, earlier>>

\* lines 140-162
EnvRatioCall ==
    /\ call = "calculate_env_fixation_ratio"
    /\ pc = "entry"
    /\ ret' = calculate_env_fixation_ratio(fixations, content_aois)
    /\ pc' = "returned"
    /\ UNCHANGED <<call, gaze_points, distance_threshold, duration_threshold, i,
                   current_fixation, fixations, content_aois, window_data, earlier>>

\* lines 111-137, called again on the trace with one more sample at its end;
\* the trace before and its count are remembered
RereadCallAppended ==
    /\ call = "calculate_reread_frequency"
    /\ pc = "returned"
    /\ earlier = <<>>
    /\ \E p \in AoiSamples :
        /\ gaze_points' = Append(gaze_points, p)
        /\ ret' = calculate_reread_frequency(Append(gaze_points, p))
    /\ earlier' = <<[trace |-> gaze_points, count |-> ret]>>
    /\ UNCHANGED <<call, pc, distance_threshold, duration_threshold, i,
                   current_fixation, fixations, content_aois, window_data>>

NextMetrics == SaccadeCall \/ RereadCall \/ EnvRatioCall \/ RereadCallAppended

SpecMetrics == InitMetrics /\ [][NextMetrics]_vars

-----------------------------------------------------------------------------
(* One call of extract_features_from_window *)

InitWindow ==
    /\ call = "extract_features_from_window"
    /\ pc = "entry"
    /\ \E g \in GazeStreams, n \in InteractionStreams, h \in HeartRateStreams :
           window_data = Window(g, n, h)
    /\ gaze_points = <<>>
    /\ distance_threshold = DefaultDistanceThreshold
    /\ duration_threshold = DefaultDurationThreshold
    /\ i = 0
    /\ current_fixation = None
    /\ fixations = <<>>
    /\ content_aois = None
    /\ ret = None
    /\ earlier = <<>>

\* lines 165-218; fixations keeps the local list of line 183
ExtractCall ==
    /\ call = "extract_features_from_window"
    /\ pc = "entry"
    /\ fixations' = WindowFixations(window_data)
    /\ ret' = extract_features_from_window(window_data)
    /\ pc' = "returned"
    /\ UNCHANGED <<call, gaze_points, distance_threshold, duration_threshold, i,
                   current_fixation, content_aois, window_data, earlier>>

NextWindow == ExtractCall

SpecWindow == InitWindow /\ [][NextWindow]_vars

-----------------------------------------------------------------------------
(* Windows analysed one after another by the serving layer *)

InitRepeat ==
    /\ call = "extract_features_from_window"
    /\ pc = "idle"
    /\ window_data = None
    /\ gaze_points = <<>>
    /\ distance_threshold = DefaultDistanceThreshold
    /\ duration_threshold = DefaultDurationThreshold
    /\ i = 0
    /\ current_fixation = None
    /\ fixations = <<>>
    /\ content_aois = None
    /\ ret = None
    /\ earlier = <<>>

\* main.py line 117: the next request's window is analysed; the call before it
\* is remembered with what it returned
AnalyzeWindow ==
    /\ pc = "idle" \/ Len(earlier) < MaxCalls
    /\ \E w \in RepeatWindows :
        /\ window_data' = w
        /\ fixations' = WindowFixations(w)
        /\ ret' = extract_features_from_window(w)
    /\ earlier' = IF pc = "returned"
                  THEN Append(earlier, [window |-> window_data, features |-> ret])
                  ELSE earlier
    /\ pc' = "returned"
    /\ UNCHANGED <<call, gaze_points, distance_threshold, duration_threshold, i,
                   current_fixation, content_aois>>

NextRepeat == AnalyzeWindow

SpecRepeat == InitRepeat /\ [][NextRepeat]_vars

-----------------------------------------------------------------------------
(* Calls of extract_features_from_window in flight together, each on its own
   window, their steps interleaved in any order.  Under this specification
   every variable of a call holds one value per call: window_data[c] is the
   argument of call c, gaze_points[c] its gaze_log, pc[c] and i[c] its
   position, ret[c] what it returned; fixations and current_fixation hold one
   value per frame of locals; earlier holds the windows as they were passed. *)

InFlight == 1..MaxInFlight

\* every call reads and writes the frame of call 1
FrameShared(c) == 1

\* lines 21-22: fixations and current_fixation are locals, bound anew in the
\* frame of each call; the module has no global and no mutable default
FrameOf(c) == c

\* lines 186-216: the mapping returned for window w once its fixations are fs
WindowFeatures(w, fs) ==
    LET gaze_log     == Get(w, "gaze_log", <<>>)
        interactions == Get(w, "interactions", <<>>)
        heart_rate   == Get(w, "heart_rate", <<>>)
        mean_fixation_duration ==
            IF Len(fs) > 0 THEN Mean(Durations(fs)) ELSE Zero
        mean_saccade_duration ==
            IF Len(fs) > 0 THEN compute_saccade_duration(fs) ELSE Zero
        reread_freq == calculate_reread_frequency(gaze_log)
        env_fixation_ratio ==
            calculate_env_fixation_ratio(fs, [list |-> <<"p1", "p2", "p3", "p4">>])
        click_count == ClickCount(interactions)
    IN  IF \E k \in 1..Len(heart_rate) : "bpm" \notin DOMAIN heart_rate[k]
        THEN KeyError
        ELSE [Mean_Fixation_Duration |-> mean_fixation_duration,
              Num_of_Fixations |-> Float(Len(fs)),
              Mean_Saccade_Duration |-> mean_saccade_duration,
              Bpm |-> IF Len(heart_rate) > 0
                      THEN Mean(Bpms(heart_rate)) ELSE Zero]

InitInterleave ==
    /\ call = "extract_features_from_window"
    /\ window_data \in [InFlight -> InterleaveWindows]
    /\ earlier = window_data
    /\ pc = [c \in InFlight |-> "entry"]
    /\ gaze_points = [c \in InFlight |-> <<>>]
    /\ i = [c \in InFlight |-> 0]
    /\ current_fixation = [c \in InFlight |-> None]
    /\ fixations = [c \in InFlight |-> <<>>]
    /\ ret = [c \in InFlight |-> None]
    /\ distance_threshold = DefaultDistanceThreshold
    /\ duration_threshold = DefaultDurationThreshold
    /\ content_aois = None

\* lines 178-183 and 18-22: call c reads its streams and enters detect_fixations;
\* an empty gaze_log returns at line 19 before any local is bound
InterleaveEntry(c) ==
    /\ pc[c] = "entry"
    /\ LET gaze_log == Get(window_data[c], "gaze_log", <<>>)
       IN  /\ gaze_points' = [gaze_points EXCEPT ![c] = gaze_log]
           /\ IF Len(gaze_log) = 0
              THEN UNCHANGED <<fixations, current_fixation>>
              ELSE /\ fixations' = [fixations EXCEPT ![FrameOf(c)] = DetectStart.fixations]
                   /\ current_fixation' =
                          [current_fixation EXCEPT ![FrameOf(c)] = DetectStart.current_fixation]
    /\ i' = [i EXCEPT ![c] = 1]
    /\ pc' = [pc EXCEPT ![c] = "for"]
    /\ UNCHANGED <<call, distance_threshold, duration_threshold, content_aois,
                   window_data, ret, earlier>>

\* lines 24-70: one iteration of call c's loop
InterleaveStep(c) ==
    /\ pc[c] = "for"
    /\ i[c] <= Len(gaze_points[c])
    /\ LET st == LoopBody([fixations |-> fixations[FrameOf(c)],
                           current_fixation |-> current_fixation[FrameOf(c)]],
                          gaze_points[c][i[c]], distance_threshold, duration_threshold)
       IN  /\ fixations' = [fixations EXCEPT ![FrameOf(c)] = st.fixations]
           /\ current_fixation' =
                  [current_fixation EXCEPT ![FrameOf(c)] = st.current_fixation]
    /\ i' = [i EXCEPT ![c] = i[c] + 1]
    /\ UNCHANGED <<call, pc, gaze_points, distance_threshold, duration_threshold,
                   content_aois, window_data, ret, earlier>>

\* lines 73-85 and 186-218: call c's detect_fixations returns and the mapping is
\* built from its fixations
InterleaveReturn(c) ==
    /\ pc[c] = "for"
    /\ i[c] > Len(gaze_points[c])
    /\ LET fs == IF Len(gaze_points[c]) = 0 THEN <<>>
                 ELSE Flush([fixations |-> fixations[FrameOf(c)],
                             current_fixation |-> current_fixation[FrameOf(c)]],
                            duration_threshold)
       IN  /\ fixations' = [fixations EXCEPT ![FrameOf(c)] = fs]
           /\ ret' = [ret EXCEPT ![c] = WindowFeatures(window_data[c], fs)]
    /\ pc' = [pc EXCEPT ![c] = "returned"]
    /\ UNCHANGED <<call, gaze_points, distance_threshold, duration_threshold, i,
                   current_fixation, content_aois, window_data, earlier>>

NextInterleave ==
    \E c \in InFlight : InterleaveEntry(c) \/ InterleaveStep(c) \/ InterleaveReturn(c)

SpecInterleave == InitInterleave /\ [][NextInterleave]_vars

-----------------------------------------------------------------------------
(* Properties of detect_fixations, under SpecDetect *)

\* the list the call has emitted so far, and the list it returned
EmittedSoFar == IF pc = "returned" THEN ret ELSE fixations

\* C1: every fixation detect_fixations emits, mid-stream or at the end of the
\* input, has duration = end - start and duration >= the duration_threshold
\* passed; a candidate with end - start below the threshold is never emitted.
C1_DurationAtLeastThreshold ==
    \A k \in 1..Len(EmittedSoFar) :
        LET f == EmittedSoFar[k]
        IN  /\ f.duration = f.end - f.start
            /\ f.duration >= duration_threshold

\* a call that emitted a fixation mid-stream and discarded its last, short candidate
C1_Witness ==
    /\ pc = "returned"
    /\ Len(gaze_points) > 0
    /\ Len(ret) > 0
    /\ duration_threshold > 0
    /\ current_fixation.end - current_fixation.start < duration_threshold

NonDecreasing(points) == \A k \in 1..(Len(points) - 1) : points[k].t <= points[k + 1].t

\* C2: when the timestamps of the input are non-decreasing, the fixations are in
\* non-decreasing start order and do not overlap: for every adjacent pair,
\* end of the earlier <= start of the later.
C2_OrderedNoOverlap ==
    NonDecreasing(gaze_points) =>
        \A k \in 1..(Len(EmittedSoFar) - 1) :
            /\ EmittedSoFar[k].start <= EmittedSoFar[k + 1].start
            /\ EmittedSoFar[k].end <= EmittedSoFar[k + 1].start

\* a returned list of two real fixations with a gap between them
C2_Witness ==
    /\ pc = "returned"
    /\ NonDecreasing(gaze_points)
    /\ duration_threshold = DefaultDurationThreshold
    /\ Len(ret) >= 2
    /\ ret[1].end < ret[2].start

-----------------------------------------------------------------------------
(* Properties of the saccade timer and the attention metrics, under SpecMetrics *)

Returned(f) == call = f /\ pc = "returned"

\* the adjacent pairs (k, k+1) of fs with a strictly positive gap
PositiveGaps(fs) == {k \in 1..(Len(fs) - 1) : fs[k + 1].start - fs[k].end > 0}

RECURSIVE GapTotal(_, _)
GapTotal(fs, K) ==
    IF K = {} THEN 0
    ELSE LET k == CHOOSE j \in K : TRUE
         IN  (fs[k + 1].start - fs[k].end) + GapTotal(fs, K \ {k})

\* C3: compute_saccade_duration returns 0.0 for 0 or 1 fixations; for a longer
\* list it returns the mean of the strictly positive gaps start(next) -
\* end(previous) of adjacent pairs, and 0.0 when no gap is strictly positive.
C3_MeanOfPositiveGaps ==
    Returned("compute_saccade_duration") =>
        LET K == PositiveGaps(fixations)
        IN  /\ Len(fixations) < 2 => ret = Zero
            /\ K = {} => ret = Zero
            /\ K # {} => /\ ret.den > 0
                         /\ ret.num * Cardinality(K) = GapTotal(fixations, K) * ret.den

\* a list with a positive gap counted and a non-positive gap left out
C3_Witness ==
    /\ Returned("compute_saccade_duration")
    /\ PositiveGaps(fixations) # {}
    /\ \E k \in 1..(Len(fixations) - 1) : fixations[k + 1].start - fixations[k].end = 0
    /\ \E k \in 1..(Len(fixations) - 1) : fixations[k + 1].start - fixations[k].end < 0
    /\ ret # Zero

\* the list content_aois stands for
ContentList == IF content_aois = None THEN DefaultContentAois ELSE content_aois.list

InContent(f) == \E k \in 1..Len(ContentList) : ContentList[k] = f.aoi

\* the fixations that are neither the sentinel nor content
OffContent(fs) == {k \in 1..Len(fs) : fs[k].aoi # "NONE" /\ ~InContent(fs[k])}

AoiOf(point) == IF "aoi" \in DOMAIN point THEN point.aoi ELSE "NONE"

NonSentinel(points) == {k \in 1..Len(points) : AoiOf(points[k]) # "NONE"}

DistinctAois(points) == {AoiOf(points[k]) : k \in NonSentinel(points)}

\* C5: calculate_reread_frequency counts every sample whose AOI was seen before,
\* never the sentinel "NONE" (a missing aoi field is "NONE"): the result is the
\* number of non-"NONE" samples minus the number of distinct non-"NONE" AOIs, and
\* 0 for fewer than two samples.
C5_RereadCount ==
    Returned("calculate_reread_frequency") =>
        /\ ret = Cardinality(NonSentinel(gaze_points)) - Cardinality(DistinctAois(gaze_points))
        /\ Len(gaze_points) < 2 => ret = 0

\* a third visit that counts, beside sentinel samples with and without the field
C5_Witness ==
    /\ Returned("calculate_reread_frequency")
    /\ ret >= 2
    /\ Cardinality(DistinctAois(gaze_points)) = 1
    /\ \E k \in 1..Len(gaze_points) : "aoi" \notin DOMAIN gaze_points[k]
    /\ \E k \in 1..Len(gaze_points) :
           "aoi" \in DOMAIN gaze_points[k] /\ gaze_points[k].aoi = "NONE"

\* C6 as the spec states it: on scenario D the re-read frequency is 2.
C6_ScenarioD_Two ==
    (Returned("calculate_reread_frequency") /\ gaze_points \in ScenarioD) => ret = 2

\* C6, amended: on scenario D (10 samples in five alternating runs, p1 visited 3
\* times) the re-read frequency is 8: every sample but the first "p1" sample and
\* the first "p2" sample counts.
C6_ScenarioD_Eight ==
    (Returned("calculate_reread_frequency") /\ gaze_points \in ScenarioD) => ret = 8

\* the scenario with runs of two samples, each run a fixation of 100 ms
C6_Witness ==
    /\ Returned("calculate_reread_frequency")
    /\ gaze_points \in ScenarioD
    /\ \A k \in 1..5 : gaze_points[2 * k - 1].aoi = gaze_points[2 * k].aoi
    /\ Len(detect_fixations(gaze_points, DefaultDistanceThreshold, DefaultDurationThreshold)) = 5
    /\ ret = 8

-----------------------------------------------------------------------------
(* Properties of extract_features_from_window, under SpecWindow *)

EyeKeys == {"Mean_Fixation_Duration", "Num_of_Fixations", "Mean_Saccade_Duration"}

\* spec section 8, scenario C: no gaze sample, no heart-rate sample, one click
ScenarioC ==
    [window_id |-> "w1", gaze_log |-> <<>>, heart_rate |-> <<>>,
     interactions |-> <<[t |-> 0, type |-> "click"]>>]

\* the mapping has an entry for the click count, under either name the spec uses
CarriesClickCount(m, n) ==
    \E key \in {"ClickCount", "click_count"} : key \in DOMAIN m /\ m[key] = Float(n)

\* C7: on scenario C the mapping extract_features_from_window returns has every
\* eye-tracking and heart-rate feature equal to 0.0 and carries a click count of 1.
C7_ScenarioC ==
    (Returned("extract_features_from_window") /\ window_data = ScenarioC) =>
        /\ \A key \in EyeKeys \cup {"Bpm"} : key \in DOMAIN ret /\ ret[key] = Zero
        /\ CarriesClickCount(ret, 1)

\* every heart-rate sample has its bpm
WellFormed(w) ==
    \A k \in 1..Len(Get(w, "heart_rate", <<>>)) : "bpm" \in DOMAIN w.heart_rate[k]

\* the window with only the stream under key
Only(w, key) == [k \in DOMAIN w \cap {"window_id", key} |-> w[k]]

\* C8: for every window of well-formed samples, any stream empty or absent,
\* extract_features_from_window returns without error a mapping with
\* Mean_Fixation_Duration, Num_of_Fixations, Mean_Saccade_Duration and Bpm; with
\* no fixation the three eye features are 0, with no heart-rate sample Bpm is 0,
\* and the absence of one stream does not change the features of the others.
C8_AlwaysAllKeys ==
    (Returned("extract_features_from_window") /\ WellFormed(window_data)) =>
        /\ ret # KeyError
        /\ EyeKeys \cup {"Bpm"} \subseteq DOMAIN ret
        /\ Len(fixations) = 0 => \A key \in EyeKeys : ret[key] = Zero
        /\ Len(Get(window_data, "heart_rate", <<>>)) = 0 => ret.Bpm = Zero
        /\ \A key \in EyeKeys :
               ret[key] = extract_features_from_window(Only(window_data, "gaze_log"))[key]
        /\ ret.Bpm = extract_features_from_window(Only(window_data, "heart_rate")).Bpm

\* a window with heart-rate samples only
C8_Witness ==
    /\ Returned("extract_features_from_window")
    /\ DOMAIN window_data = {"window_id", "heart_rate"}
    /\ WellFormed(window_data)
    /\ Len(window_data.heart_rate) = 2
    /\ ret.Bpm # Zero
    /\ \A key \in EyeKeys : ret[key] = Zero

IsScenarioB(w) == "gaze_log" \in DOMAIN w /\ w.gaze_log \in ScenarioB

\* C9: on scenario B, detect_fixations with the default thresholds returns
\* exactly two fixations, 0..120 and 200..350, and the mean saccade duration is
\* 200 - 120 = 80.
C9_ScenarioB ==
    (Returned("extract_features_from_window") /\ IsScenarioB(window_data)) =>
        /\ Len(fixations) = 2
        /\ fixations[1].start = 0 /\ fixations[1].end = 120
        /\ fixations[2].start = 200 /\ fixations[2].end = 350
        /\ compute_saccade_duration(fixations) = Float(80)
        /\ ret # KeyError => ret.Mean_Saccade_Duration = Float(80)

\* the scenario with three samples in each cluster
C9_Witness ==
    /\ Returned("extract_features_from_window")
    /\ IsScenarioB(window_data)
    /\ Len(window_data.gaze_log) = 6
    /\ ret # KeyError
    /\ ret.Num_of_Fixations = Float(2)
    /\ ret.Mean_Saccade_Duration = Float(80)

-----------------------------------------------------------------------------
(* Properties of repeated calls, under SpecRepeat *)

-----------------------------------------------------------------------------
(* Edge cases of detect_fixations, under SpecDetect *)

\* C11: detect_fixations returns an empty list for an empty input, and for a
\* single-sample input: the one candidate has duration 0, which is below every
\* positive duration threshold (the default 100 among them), so it is discarded.
C11_EmptyAndSingle ==
    (call = "detect_fixations" /\ pc = "returned") =>
        /\ Len(gaze_points) = 0 => ret = <<>>
        /\ (Len(gaze_points) = 1 /\ duration_threshold > 0) =>
               /\ current_fixation.end - current_fixation.start = 0
               /\ ret = <<>>

\* one sample under the default duration threshold
C11_Witness ==
    /\ call = "detect_fixations"
    /\ pc = "returned"
    /\ Len(gaze_points) = 1
    /\ duration_threshold = DefaultDurationThreshold
    /\ current_fixation # None
    /\ ret = <<>>

-----------------------------------------------------------------------------
(* The re-read frequency of a growing trace, under SpecMetrics *)

\* C12: appending a sample p to a trace s never lowers the re-read frequency,
\* and raises it by exactly 1 when p's AOI is not "NONE" and already occurs in s.
C12_MonotoneUnderAppend ==
    (call = "calculate_reread_frequency" /\ Len(earlier) = 1) =>
        LET s == earlier[1].trace
            p == gaze_points[Len(gaze_points)]
        IN  /\ gaze_points = Append(s, p)
            /\ ret >= earlier[1].count
            /\ (AoiOf(p) # "NONE" /\ \E k \in 1..Len(s) : AoiOf(s[k]) = AoiOf(p))
                   => ret = earlier[1].count + 1

\* a one-sample trace, whose count came from the early return, revisited
C12_Witness ==
    /\ call = "calculate_reread_frequency"
    /\ Len(earlier) = 1
    /\ Len(earlier[1].trace) = 1
    /\ AoiOf(earlier[1].trace[1]) = "p1"
    /\ AoiOf(gaze_points[2]) = "p1"
    /\ earlier[1].count = 0
    /\ ret = 1

-----------------------------------------------------------------------------
(* The candidates of detect_fixations as runs of the input, under SpecDetect *)

\* the samples the loop has consumed
Consumed ==
    IF pc = "returned" THEN Len(gaze_points) ELSE IF pc = "for" THEN i - 1 ELSE 0

\* sum of field c ("x" or "y") over samples a..b
RECURSIVE CoordSum(_, _, _, _)
CoordSum(points, c, a, b) ==
    IF a > b THEN 0 ELSE points[a][c] + CoordSum(points, c, a + 1, b)

\* sample k has the AOI of sample a and lies within dthr (inclusive) of the mean
\* of the samples a..k-1
JoinsRun(points, a, k, dthr) ==
    LET n  == k - a
        dx == n * points[k].x - CoordSum(points, "x", a, k - 1)
        dy == n * points[k].y - CoordSum(points, "y", a, k - 1)
    IN  /\ AoiOf(points[k]) = AoiOf(points[a])
        /\ dx * dx + dy * dy <= (dthr * n) * (dthr * n)

\* RunStarts[k] is the first sample of the run that holds sample k, for the
\* first n samples: a sample that does not join the run before it starts the
\* next run
RECURSIVE RunStarts(_, _, _)
RunStarts(points, n, dthr) ==
    IF n = 0 THEN <<>>
    ELSE IF n = 1 THEN <<1>>
    ELSE LET before == RunStarts(points, n - 1, dthr)
             a      == before[n - 1]
         IN  Append(before, IF JoinsRun(points, a, n, dthr) THEN a ELSE n)

\* the runs <<first, last>> among the first e of n samples that are closed (the
\* run of sample n is closed when the call has returned) and long enough to be
\* emitted, in input order
RECURSIVE LongRuns(_, _, _, _, _, _)
LongRuns(points, starts, e, n, returned, durthr) ==
    IF e = 0 THEN <<>>
    ELSE LET before == LongRuns(points, starts, e - 1, n, returned, durthr)
             closed == IF e < n THEN starts[e + 1] = e + 1 ELSE returned
         IN  IF closed /\ points[e].t - points[starts[e]].t >= durthr
             THEN Append(before, <<starts[e], e>>)
             ELSE before

OpenRunStart == RunStarts(gaze_points, Consumed, distance_threshold)[Consumed]

EmittedRuns ==
    LongRuns(gaze_points, RunStarts(gaze_points, Consumed, distance_threshold),
             Consumed, Consumed, pc = "returned", duration_threshold)

\* fixation f is the run a..b of the input
IsRun(f, a, b) ==
    /\ f.start = gaze_points[a].t
    /\ f.end = gaze_points[b].t
    /\ f.aoi = AoiOf(gaze_points[a])
    /\ f.x = Frac(CoordSum(gaze_points, "x", a, b), b - a + 1)
    /\ f.y = Frac(CoordSum(gaze_points, "y", a, b), b - a + 1)
    /\ \A m \in (a + 1)..b : JoinsRun(gaze_points, a, m, distance_threshold)
    /\ b < Consumed => ~JoinsRun(gaze_points, a, b + 1, distance_threshold)

\* C13: every emitted fixation is a contiguous run a..b of the input in input
\* order: start = t of a, end = t of b, aoi = AOI of a ("NONE" when missing),
\* every member has that AOI and every member after the first lay within
\* distance_threshold (inclusive) of the mean of the members before it; a sample
\* failing either test closes the candidate and seeds the next one, so the
\* candidates partition the input: none dropped, none in two candidates.
C13_ContiguousRuns ==
    call = "detect_fixations" =>
        /\ LET runs == EmittedRuns
           IN  /\ Len(EmittedSoFar) = Len(runs)
               /\ \A k \in 1..Len(runs) : IsRun(EmittedSoFar[k], runs[k][1], runs[k][2])
        /\ Consumed > 0 =>
               LET a == OpenRunStart
               IN  /\ current_fixation.x = [m \in 1..(Consumed - a + 1) |-> gaze_points[a + m - 1].x]
                   /\ current_fixation.y = [m \in 1..(Consumed - a + 1) |-> gaze_points[a + m - 1].y]
                   /\ current_fixation.start = gaze_points[a].t
                   /\ current_fixation.end = gaze_points[Consumed].t
                   /\ current_fixation.aoi = AoiOf(gaze_points[a])

\* a fixation of three samples whose third is 75 from the first and 50 from the
\* mean of the first two
C13_Witness ==
    /\ call = "detect_fixations"
    /\ pc = "returned"
    /\ distance_threshold = DefaultDistanceThreshold
    /\ Len(gaze_points) = 3
    /\ Len(ret) = 1
    /\ current_fixation.x = <<100, 130, 145>>
    /\ current_fixation.y = <<100, 140, 160>>

-----------------------------------------------------------------------------
(* Frame effects and interleaving, under SpecInterleave *)

\* what a call alone holds after consuming the first n samples of window w
AloneAfter(w, n) ==
    Loop(DetectStart, SubSeq(Get(w, "gaze_log", <<>>), 1, n),
         DefaultDistanceThreshold, DefaultDurationThreshold)

\* C14: no call changes its input (the window mapping and the sample lists in
\* it stay as passed, and the fixation list handed to the metric functions is
\* the one detect_fixations returned), and calls on independent windows whose
\* steps interleave in any order hold at every position, and return, exactly
\* what each call holds and returns when run alone.
C14_NoSharedStateNoInputChange ==
    call = "extract_features_from_window" =>
        /\ window_data = earlier
        /\ \A c \in InFlight :
               /\ pc[c] # "entry" => gaze_points[c] = Get(earlier[c], "gaze_log", <<>>)
               /\ pc[c] = "for" =>
                      AloneAfter(earlier[c], i[c] - 1) =
                          [fixations |-> fixations[c],
                           current_fixation |-> current_fixation[c]]
               /\ pc[c] = "returned" =>
                      /\ fixations[c] = WindowFixations(earlier[c])
                      /\ ret[c] = extract_features_from_window(earlier[c])

\* two calls on different windows, both in the middle of their loops with an
\* open candidate each
C14_Witness ==
    /\ call = "extract_features_from_window"
    /\ pc[1] = "for" /\ pc[2] = "for"
    /\ window_data[1] # window_data[2]
    /\ 1 < i[1] /\ i[1] <= Len(gaze_points[1])
    /\ 1 < i[2] /\ i[2] <= Len(gaze_points[2])
    /\ current_fixation[1] # None /\ current_fixation[2] # None
    /\ current_fixation[1] # current_fixation[2]

-----------------------------------------------------------------------------
(* distance_threshold = 0, under SpecDetect *)

SamePlace(p, q) == p.x = q.x /\ p.y = q.y

\* C15: with distance_threshold = 0 the call goes through without error (every
\* state before the return has a next step, and the return value is a list); a
\* sample joins the open candidate only when its coordinates equal the
\* candidate's centroid and its AOI matches, so the open candidate and every
\* emitted fixation consist of samples with identical coordinates; the
\* duration test still applies to what is emitted.
C15_ZeroDistanceThreshold ==
    (call = "detect_fixations" /\ distance_threshold = 0) =>
        /\ pc # "returned" => ENABLED NextDetect
        /\ pc = "returned" => ret = fixations /\ Len(ret) <= Len(gaze_points)
        /\ current_fixation # None =>
               /\ \A m \in 1..Len(current_fixation.x) :
                      /\ current_fixation.x[m] = current_fixation.x[1]
                      /\ current_fixation.y[m] = current_fixation.y[1]
               /\ (pc = "for" /\ i <= Len(gaze_points)) =>
                      LET point == gaze_points[i]
                          st    == LoopBody([fixations |-> fixations,
                                             current_fixation |-> current_fixation],
                                            point, distance_threshold, duration_threshold)
                      IN  Len(st.current_fixation.x) > 1 <=>
                              /\ point.x = current_fixation.x[1]
                              /\ point.y = current_fixation.y[1]
                              /\ AoiOf(point) = current_fixation.aoi
        /\ LET runs == EmittedRuns
           IN  \A k \in 1..Len(EmittedSoFar) :
               LET a == runs[k][1]
                   b == runs[k][2]
                   f == EmittedSoFar[k]
               IN  /\ \A m \in a..b : SamePlace(gaze_points[m], gaze_points[a])
                   /\ f.x = Float(gaze_points[a].x)
                   /\ f.y = Float(gaze_points[a].y)
                   /\ f.duration = gaze_points[b].t - gaze_points[a].t
                   /\ f.duration >= duration_threshold

\* two samples at one place 100 ms apart are emitted as one fixation, closed by
\* a third sample that is somewhere else or in another AOI
C15_Witness ==
    /\ call = "detect_fixations"
    /\ pc = "returned"
    /\ distance_threshold = 0
    /\ duration_threshold = DefaultDurationThreshold
    /\ Len(gaze_points) = 3
    /\ Len(ret) = 1
    /\ ret[1].duration = 100
    /\ SamePlace(gaze_points[1], gaze_points[2])
    /\ ~SamePlace(gaze_points[2], gaze_points[3])
    /\ Len(current_fixation.x) = 1

====
